---------------------------- MODULE Spec2Model ----------------------------
(***************************************************************************)
(* Model of the discovery orchestrator of kliq-growth-engine               *)
(* (src/app/scrapers/discovery.py): multi-platform discovery, the          *)
(* deduplication of scraped profiles into prospects by email, website and  *)
(* fuzzy name, the one-hop cross-platform enrichment and the final         *)
(* ordering of the prospects.                                              *)
(*                                                                         *)
(* Python strings are sequences of one-character strings, so that          *)
(* str.lower, str.strip, str.split and difflib's ratio are computed and    *)
(* not assumed.  The Python value None is the sentinel None below, which   *)
(* is no string: its single element is not one character.                  *)
(***************************************************************************)
EXTENDS Integers, Sequences, FiniteSets, TLC

(***************************************************************************)
(* Strings                                                                 *)
(***************************************************************************)
None == <<"None">>

\* Python truthiness of an Optional[str]: None and "" are falsy.
Truthy(s) == s # None /\ s # <<>>

UpperChars == <<"A","B","C","D","E","F","G","H","I","J","K","L","M",
                "N","O","P","Q","R","S","T","U","V","W","X","Y","Z">>
LowerChars == <<"a","b","c","d","e","f","g","h","i","j","k","l","m",
                "n","o","p","q","r","s","t","u","v","w","x","y","z">>

LowerChar(c) ==
    IF \E n \in 1..Len(UpperChars) : UpperChars[n] = c
    THEN LowerChars[CHOOSE n \in 1..Len(UpperChars) : UpperChars[n] = c]
    ELSE c

\* str.lower()
Lower(s) == [k \in 1..Len(s) |-> LowerChar(s[k])]

Whitespace == {" ", "\t", "\n"}

\* str.strip(): drops leading and trailing whitespace, keeps inner runs.
Strip(s) ==
    LET solid == {k \in 1..Len(s) : s[k] \notin Whitespace}
        lo == CHOOSE k \in solid : \A m \in solid : k <= m
        hi == CHOOSE k \in solid : \A m \in solid : k >= m
    IN  IF solid = {} THEN <<>> ELSE SubSeq(s, lo, hi)

\* str.lstrip("@")
RECURSIVE LStripAt(_)
LStripAt(s) == IF s # <<>> /\ Head(s) = "@" THEN LStripAt(Tail(s)) ELSE s

\* link.split("/")[-1]: what follows the last "/" (the whole link without one)
LastSegment(s) ==
    LET slashes == {k \in 1..Len(s) : s[k] = "/"}
        last == CHOOSE k \in slashes : \A m \in slashes : k >= m
    IN  IF slashes = {} THEN s ELSE SubSeq(s, last + 1, Len(s))

(***************************************************************************)
(* difflib.SequenceMatcher(None, a, b).ratio(), for strings shorter than   *)
(* 200 characters (no autojunk).  Indices are Python's: 0-based, [lo, hi). *)
(***************************************************************************)
RECURSIVE CommonRun(_, _, _, _, _, _)
CommonRun(a, b, i, j, ahi, bhi) ==
    IF i >= ahi \/ j >= bhi THEN 0
    ELSE IF a[i + 1] # b[j + 1] THEN 0
    ELSE 1 + CommonRun(a, b, i + 1, j + 1, ahi, bhi)

\* find_longest_match: the longest block a[i:i+k] == b[j:j+k] in the window,
\* of those the one starting earliest in a, of those the earliest in b.
FindLongestMatch(a, b, alo, ahi, blo, bhi) ==
    LET starts == (alo..(ahi - 1)) \X (blo..(bhi - 1))
        K == [p \in starts |-> CommonRun(a, b, p[1], p[2], ahi, bhi)]
        sizes == {K[p] : p \in starts}
        size == CHOOSE n \in sizes : \A m \in sizes : n >= m
        longest == {p \in starts : K[p] = size}
        best == CHOOSE p \in longest :
                    \A q \in longest : p[1] < q[1] \/ (p[1] = q[1] /\ p[2] <= q[2])
    IN  IF starts = {} THEN <<alo, blo, 0>> ELSE <<best[1], best[2], size>>

\* get_matching_blocks: the sum of the sizes of the blocks it returns.
RECURSIVE MatchedChars(_, _, _, _, _, _)
MatchedChars(a, b, alo, ahi, blo, bhi) ==
    LET m == FindLongestMatch(a, b, alo, ahi, blo, bhi)
        i == m[1]
        j == m[2]
        k == m[3]
    IN  IF k = 0 THEN 0
        ELSE k
             + (IF alo < i /\ blo < j
                THEN MatchedChars(a, b, alo, i, blo, j) ELSE 0)
             + (IF i + k < ahi /\ j + k < bhi
                THEN MatchedChars(a, b, i + k, ahi, j + k, bhi) ELSE 0)

\* ratio() as the fraction <<numerator, denominator>>: 2.0*M/T, 1.0 when T = 0
Ratio(a, b) ==
    LET T == Len(a) + Len(b)
    IN  IF T = 0 THEN <<1, 1>>
        ELSE <<2 * MatchedChars(a, b, 0, Len(a), 0, Len(b)), T>>

\* NAME_SIMILARITY_THRESHOLD = 0.85, as ThresholdNum / ThresholdDen
ThresholdNum == 85
ThresholdDen == 100

(***************************************************************************)
(* Data model (src/app/scrapers/base.py, discovery.py)                     *)
(***************************************************************************)
\* Platform enum values
Platform == {"youtube", "skool", "patreon", "website", "tiktok", "instagram"}

\* A ScrapedProfile.  ref stands for the identity of the Python object: an
\* adapter returns fresh objects, and two profiles with equal fields are
\* still two profiles.  A dict is the sequence of its <<key, value>> items in
\* insertion order.
ScrapedProfile(pf, id, nm, em, url, soc, fc, sc, mc, bio) ==
    [ref |-> 0, platform |-> pf, platform_id |-> id, name |-> nm, bio |-> bio,
     email |-> em, website_url |-> url, social_links |-> soc,
     follower_count |-> fc, subscriber_count |-> sc, member_count |-> mc]

\* EnrichedProspect(primary_profile=..., email=...), the other fields default
EnrichedProspect(profile, content, pricing, email) ==
    [primary_profile |-> profile, platform_profiles |-> <<>>,
     all_content |-> content, all_pricing |-> pricing, email |-> email]

\* dict.update(other): a present key keeps its place and takes the new value
RECURSIVE DictUpdate(_, _)
DictUpdate(d, other) ==
    IF other = <<>> THEN d
    ELSE LET kv == Head(other)
             at == {n \in 1..Len(d) : d[n][1] = kv[1]}
         IN  DictUpdate(IF at = {} THEN Append(d, kv)
                        ELSE [d EXCEPT ![CHOOSE n \in at : TRUE] = kv],
                        Tail(other))

\* [primary_profile] + platform_profiles
AllProfiles(p) == <<p.primary_profile>> \o p.platform_profiles

\* EnrichedProspect.social_links
RECURSIVE MergeSocial(_, _)
MergeSocial(merged, profiles) ==
    IF profiles = <<>> THEN merged
    ELSE MergeSocial(DictUpdate(merged, Head(profiles).social_links), Tail(profiles))

SocialLinks(p) == MergeSocial(<<>>, AllProfiles(p))

\* EnrichedProspect.total_followers
\* EnrichedProspect.name
Name(p) == p.primary_profile.name

\* (variant) the bio of the primary
Bio_Primary(p) == p.primary_profile.bio

\* EnrichedProspect.bio: max(bios, key=len), the first of the longest
Bio(p) ==
    LET bios == [n \in 1..Len(AllProfiles(p)) |-> AllProfiles(p)[n].bio]
        longest == {n \in 1..Len(bios) : \A m \in 1..Len(bios) : Len(bios[m]) <= Len(bios[n])}
    IN  bios[CHOOSE n \in longest : \A m \in longest : n <= m]

RECURSIVE SumSecondary(_)
SumSecondary(profiles) ==
    IF profiles = <<>> THEN 0
    ELSE Head(profiles).follower_count + Head(profiles).subscriber_count
         + Head(profiles).member_count + SumSecondary(Tail(profiles))

TotalFollowers(p) ==
    p.primary_profile.follower_count + p.primary_profile.subscriber_count
    + SumSecondary(p.platform_profiles)

(***************************************************************************)
(* PlatformAdapter.extract_email: re.search of                             *)
(*   [a-zA-Z0-9._%+-]+@[a-zA-Z0-9.-]+\.[a-zA-Z]{2,}                        *)
(* in the bio; the leftmost match, each repetition greedy.                 *)
(***************************************************************************)
Digits == {"0","1","2","3","4","5","6","7","8","9"}
Letters == {UpperChars[k] : k \in 1..Len(UpperChars)}
           \cup {LowerChars[k] : k \in 1..Len(LowerChars)}
LocalChars == Letters \cup Digits \cup {".", "_", "%", "+", "-"}
DomainChars == Letters \cup Digits \cup {".", "-"}

\* the number of consecutive characters of class cls in s from position k on
RECURSIVE RunLen(_, _, _)
RunLen(s, k, cls) ==
    IF k > Len(s) THEN 0
    ELSE IF s[k] \notin cls THEN 0
    ELSE 1 + RunLen(s, k + 1, cls)

\* the end position of the match starting at position k, 0 when there is none
EmailMatchEnd(s, k) ==
    LET n == RunLen(s, k, LocalChars)
        at == k + n
        dom == at + 1
        m == RunLen(s, dom, DomainChars)
        dots == {d \in (dom + 1)..(dom + m - 1) :
                    s[d] = "." /\ RunLen(s, d + 1, Letters) >= 2}
        dot == CHOOSE d \in dots : \A e \in dots : d >= e
    IN  IF n = 0 \/ at > Len(s) THEN 0
        ELSE IF s[at] # "@" \/ dots = {} THEN 0
        ELSE dot + RunLen(s, dot + 1, Letters)

ExtractEmail(profile) ==
    LET bio == profile.bio
        hits == {k \in 1..Len(bio) : EmailMatchEnd(bio, k) > 0}
        first == CHOOSE k \in hits : \A m \in hits : k <= m
    IN  IF bio = <<>> \/ hits = {} THEN None
        ELSE SubSeq(bio, first, EmailMatchEnd(bio, first))


(***************************************************************************)
(* The inputs of the runs: what the platforms hold                         *)
(***************************************************************************)
S_JaneDoe == <<"J","a","n","e"," ","D","o","e">>
S_JaneDoe2 == <<"J","a","n","e"," "," ","D","o","e">>
S_JohnDoe == <<"J","o","h","n"," ","D","o","e">>
S_JANEDOE == <<" ","J","A","N","E"," ","D","O","E","\t">>
S_A17 ==
    <<"a","a","a","a","a","a","a","a","a","a","a","a","a","a","a","a",
    "a">>
S_A17B6 ==
    <<"a","a","a","a","a","a","a","a","a","a","a","a","a","a","a","a",
    "a","b","b","b","b","b","b">>
E_a == <<"a","@","x",".","c","o">>
E_A == <<"A","@","x",".","c","o">>
E_b == <<"b","@","y",".","c","o">>
U_x == <<"h","t","t","p","s",":","/","/","x",".","c","o">>
U_X == <<"H","T","T","P","S",":","/","/","X",".","C","O">>
L_skool ==
    <<"h","t","t","p","s",":","/","/","s","k","o","o","l",".","c","o",
    "m","/","@","j","a","n","e">>
L_youtube ==
    <<"y","o","u","t","u","b","e",".","c","o","m","/","@","j","a","n",
    "e">>
L_twitter == <<"x",".","c","o","m","/","j","a","n","e">>
L_patreon ==
    <<"p","a","t","r","e","o","n",".","c","o","m","/","j","a","n",
    "e">>
Id_jane == <<"j","a","n","e">>
E_jf == <<"j","@","f",".","i","o">>
Bio_coach == <<"c","o","a","c","h">>
L_skoolSelf == <<"s","k","o","o","l",".","c","o","m","/","j","a","n","e">>
Bio_mail == <<"m","a","i","l"," ","j","@","f",".","i","o","!">>


\* Profiles the adapters return to discover_coaches
P_jane == ScrapedProfile("youtube", <<"c","1">>, S_JaneDoe, None, None, <<>>, 100000, 0, 0, <<>>)
P_jane2 == ScrapedProfile("youtube", <<"c","2">>, S_JaneDoe2, E_a, None, <<>>, 0, 10, 0, <<>>)
P_john == ScrapedProfile("youtube", <<"c","3">>, S_JohnDoe, None, None, <<>>, 5, 0, 0, <<>>)
P_johnA == ScrapedProfile("youtube", <<"c","4">>, S_JohnDoe, E_A, U_x, <<>>, 10, 0, 0, <<>>)
P_noname == ScrapedProfile("youtube", <<"c","5">>, <<>>, None, None, <<>>, 0, 0, 0, <<>>)
P_JANE == ScrapedProfile("youtube", <<"c","6">>, S_JANEDOE, None, U_X, <<>>, 0, 0, 7, <<>>)
P_a17 == ScrapedProfile("youtube", <<"c","7">>, S_A17, None, None, <<>>, 0, 0, 0, <<>>)
P_a17b6 == ScrapedProfile("youtube", <<"c","8">>, S_A17B6, E_b, None, <<>>, 0, 0, 0, <<>>)

ResolvePool == {P_jane, P_jane2, P_john, P_johnA, P_noname, P_JANE}

\* two names whose ratio is the threshold itself: 2 * 17 / (17 + 23)
ThresholdPool == {P_a17, P_a17b6}

\* the longest list one adapter returns in a resolution run
MaxProfiles == 4

\* Profiles for the website rule and for names similar to several names
U_http == <<"h","t","t","p",":","/","/","x",".","c","o">>
S_FitPro == <<"S","a","m"," ","L","e","e"," ","F","i","t"," ","P","r","o">>
S_FitGym == <<"S","a","m"," ","L","e","e"," ","F","i","t"," ","G","y","m">>
S_FitGyo == <<"S","a","m"," ","L","e","e"," ","F","i","t"," ","G","y","o">>
P_https == ScrapedProfile("youtube", <<"w","1">>, S_JaneDoe, None, U_x, <<>>, 0, 0, 0, <<>>)
P_http == ScrapedProfile("youtube", <<"w","2">>, S_JohnDoe, None, U_http, <<>>, 0, 0, 0, <<>>)
P_fitPro == ScrapedProfile("youtube", <<"f","1">>, S_FitPro, None, None, <<>>, 0, 0, 0, <<>>)
P_fitGym == ScrapedProfile("youtube", <<"f","2">>, S_FitGym, None, None, <<>>, 0, 0, 0, <<>>)
P_fitGyo == ScrapedProfile("youtube", <<"f","3">>, S_FitGyo, None, None, <<>>, 0, 0, 0, <<>>)
RulePool == {P_https, P_http, P_fitPro, P_fitGym, P_fitGyo}

\* Profiles of the runs that vary the adapters and their failures
P_skoolJane == ScrapedProfile("skool", Id_jane, S_JaneDoe, E_a, None, <<>>, 0, 0, 200, <<>>)
DiscoverPool == {P_jane, P_skoolJane}

\* the longest list one adapter returns in those runs
MaxFeed == 1

\* Profiles scrape_profile returns
Y_plain == ScrapedProfile("youtube", Id_jane, S_JaneDoe, None, None, <<>>, 5000, 0, 0, Bio_mail)
Y_links ==
    ScrapedProfile("youtube", Id_jane, S_JaneDoe, None, None,
                   << <<"twitter", L_twitter>>, <<"skool", L_skool>>,
                      <<"youtube", L_youtube>>, <<"patreon", L_patreon>> >>,
                   5000, 0, 0, <<>>)
Y_skool ==
    ScrapedProfile("youtube", Id_jane, S_JaneDoe, None, None,
                   << <<"skool", L_skool>> >>, 5000, 0, 0, <<>>)
Y_mail ==
    ScrapedProfile("youtube", Id_jane, S_JaneDoe, None, None,
                   << <<"skool", L_skool>> >>, 5000, 0, 0, Bio_mail)
S_back ==
    ScrapedProfile("skool", Id_jane, S_JaneDoe, E_a, None,
                   << <<"youtube", L_youtube>>, <<"skool", L_skoolSelf>> >>,
                   0, 0, 200, Bio_coach)

\* Profiles of the runs that call discover again
P_jf == ScrapedProfile("youtube", <<"c","9">>, S_JohnDoe, E_jf, None, <<>>, 0, 3, 0, <<>>)
RepeatPool == {P_jf, Y_plain, Y_skool}

RECURSIVE SeqsUpTo(_, _)
SeqsUpTo(S, n) ==
    IF n = 0 THEN {<<>>}
    ELSE LET shorter == SeqsUpTo(S, n - 1)
         IN  shorter \cup {Append(q, x) : q \in shorter, x \in S}

\* What a call of an adapter does: it returns value, or raises
\* NotImplementedError ("notimpl") or another Exception ("error").
Ok(v) == [kind |-> "ok", value |-> v]
NotImpl == [kind |-> "notimpl", value |-> <<>>]
Failed == [kind |-> "error", value |-> <<>>]

Content(pf, id) == [platform |-> pf, platform_id |-> id, content_type |-> "video"]
Pricing(pf, id) == [platform |-> pf, platform_id |-> id, tier_name |-> "basic"]

NoFeed == [pf \in Platform |-> NotImpl]
NoSite == <<>>

ResolveFeeds ==
    {[NoFeed EXCEPT !["youtube"] = f] :
        f \in {NotImpl, Failed}
              \cup {Ok(q) : q \in SeqsUpTo(ResolvePool, MaxProfiles)}
              \cup {Ok(q) : q \in SeqsUpTo(ThresholdPool, MaxProfiles)}}

RuleFeeds ==
    {[NoFeed EXCEPT !["youtube"] = Ok(q)] : q \in SeqsUpTo(RulePool, MaxProfiles - 1)}

DiscoverFeeds ==
    LET F == {NotImpl, Failed} \cup {Ok(q) : q \in SeqsUpTo(DiscoverPool, MaxFeed)}
    IN  {[NoFeed EXCEPT !["youtube"] = f, !["skool"] = g] : f \in F, g \in F}

Sites ==
    {(<<"youtube", Id_jane>> :> [profile |-> yp, content |-> yc,
                                 pricing |-> Ok(<<>>)])
     @@ (<<"skool", Id_jane>> :> [profile |-> sp, content |-> sc, pricing |-> sr]) :
        yp \in {Ok(Y_plain), Ok(Y_links), Ok(Y_skool), Ok(Y_mail), Failed},
        yc \in {Ok(<<Content("youtube", Id_jane)>>), Failed},
        sp \in {Ok(S_back), NotImpl, Failed},
        sc \in {Ok(<<Content("skool", Id_jane)>>), Failed},
        sr \in {Ok(<<Pricing("skool", Id_jane)>>), NotImpl}}

\* the first feed and the feed of the two later calls of a run that calls
\* discover three times
RepeatFeeds ==
    LET feed(q) == [NoFeed EXCEPT !["youtube"] = Ok(q)]
    IN  {[feed |-> feed(first), next |-> <<feed(q), feed(q)>>] :
            q \in SeqsUpTo(RepeatPool, MaxFeed + 1), first \in {<<P_jf>>}}
        \cup {[feed |-> feed(q), next |-> <<feed(q), feed(q)>>] :
                 q \in SeqsUpTo(RepeatPool, MaxFeed + 1)}

RepeatSite ==
    <<"skool", Id_jane>> :> [profile |-> Ok(S_back),
                             content |-> Ok(<<Content("skool", Id_jane)>>),
                             pricing |-> Ok(<<Pricing("skool", Id_jane)>>)]

\* default search terms of _discover_coaches
DefaultQueries == <<"fitness coach", "personal trainer", "wellness coach">>

(***************************************************************************)
(* DiscoveryOrchestrator: the pure parts                                   *)
(***************************************************************************)
\* __init__: {a.platform: a for a in adapters}; an adapter is modelled by
\* its platform, a repeated platform keeps its first place in the dict.
RECURSIVE AdaptersDict(_)
AdaptersDict(adapters) ==
    IF adapters = <<>> THEN <<>>
    ELSE LET rest == AdaptersDict(SubSeq(adapters, 1, Len(adapters) - 1))
             a == adapters[Len(adapters)]
         IN  IF \E n \in 1..Len(rest) : rest[n] = a THEN rest ELSE Append(rest, a)

\* discover: target_adapters
TargetAdapters(adapters, platforms) ==
    IF platforms # None /\ platforms # <<>>
    THEN SelectSeq(adapters, LAMBDA k : \E n \in 1..Len(platforms) : platforms[n] = k)
    ELSE adapters

\* _cross_platform_enrich / scrape_single: the adapter registered under a name
HasAdapter(adapters, platform_name) ==
    \E n \in 1..Len(adapters) : adapters[n] = platform_name

\* (variant) ratio > NAME_SIMILARITY_THRESHOLD
RatioAtLeastThreshold_Strict(r) == r[1] * ThresholdDen > ThresholdNum * r[2]

\* ratio >= NAME_SIMILARITY_THRESHOLD
RatioAtLeastThreshold(r) == r[1] * ThresholdDen >= ThresholdNum * r[2]

\* (variant) an empty name matches no prospect
FindFuzzyNameMatch_SkipEmpty(prospects, name) ==
    LET hits == {n \in 1..Len(prospects) :
                    RatioAtLeastThreshold(
                        Ratio(name, Strip(Lower(prospects[n].primary_profile.name))))}
    IN  IF hits = {} \/ name = <<>> THEN 0 ELSE CHOOSE n \in hits : \A m \in hits : n <= m

\* _find_fuzzy_name_match: the index of the first prospect whose name is
\* similar enough, 0 for None
FindFuzzyNameMatch(prospects, name) ==
    LET hits == {n \in 1..Len(prospects) :
                    RatioAtLeastThreshold(
                        Ratio(name, Strip(Lower(prospects[n].primary_profile.name))))}
    IN  IF hits = {} THEN 0 ELSE CHOOSE n \in hits : \A m \in hits : n <= m

\* (variant) the comparison of the email without .lower()
MergeTarget_NoLower(prospect, by, value) ==
    \/ by = "email" /\ Truthy(prospect.email) /\ prospect.email = value
    \/ by = "url"
       /\ \E n \in 1..Len(AllProfiles(prospect)) :
             LET u == AllProfiles(prospect)[n].website_url
             IN  Truthy(u) /\ Lower(u) = value

\* _merge_into_existing: whether the prospect is the one the loop stops at
MergeTarget(prospect, by, value) ==
    \/ by = "email" /\ Truthy(prospect.email) /\ Lower(prospect.email) = value
    \/ by = "url"
       /\ \E n \in 1..Len(AllProfiles(prospect)) :
             LET u == AllProfiles(prospect)[n].website_url
             IN  Truthy(u) /\ Lower(u) = value

\* _merge_into_existing: the profile is appended to the first prospect that
\* matches; with no such prospect the loop ends and nothing is changed
MergeIntoExisting(prospects, profile, by, value) ==
    LET hits == {n \in 1..Len(prospects) : MergeTarget(prospects[n], by, value)}
        first == CHOOSE n \in hits : \A m \in hits : n <= m
    IN  IF hits = {} THEN prospects
        ELSE [prospects EXCEPT ![first].platform_profiles = Append(@, profile)]

\* the sort key of discover: (p.email is not None, p.total_followers)
QualityKey(p) == <<IF p.email # None THEN 1 ELSE 0, TotalFollowers(p)>>

\* tuple comparison k1 < k2
KeyLess(k1, k2) == k1[1] < k2[1] \/ (k1[1] = k2[1] /\ k1[2] < k2[2])

\* list.sort(key=..., reverse=True): descending, equal keys keep their order
RECURSIVE SortByQuality(_)
SortByQuality(prospects) ==
    IF prospects = <<>> THEN <<>>
    ELSE LET n == Len(prospects)
             done == SortByQuality(SubSeq(prospects, 1, n - 1))
             p == prospects[n]
             before == {m \in 1..Len(done) :
                           ~KeyLess(QualityKey(done[m]), QualityKey(p))}
             at == IF before = {} THEN 0
                   ELSE CHOOSE m \in before : \A q \in before : m >= q
         IN  SubSeq(done, 1, at) \o <<p>> \o SubSeq(done, at + 1, Len(done))


(***************************************************************************)
(* State                                                                   *)
(***************************************************************************)
VARIABLES
    world,          \* what the platforms answer: feed (discover_coaches), site (scrape_*),
                    \* next (the feeds of the later calls of discover)
    call,           \* the entry point called and its arguments
    adapters,       \* self.adapters, the platforms in the order of the dict
    pc,             \* where the run is
    queue,          \* discover: the target adapters still to be asked
    all_profiles,   \* discover: all_profiles
    prospects,      \* _deduplicate_and_enrich: prospects; then the list discover sorts
    seen_emails,    \* _deduplicate_and_enrich: seen_emails
    seen_urls,      \* _deduplicate_and_enrich: seen_urls
    i,              \* _deduplicate_and_enrich: the profiles already processed
    prospect,       \* scrape_single: prospect (<<>> before it is built)
    social,         \* _cross_platform_enrich: social, the dict the loop iterates
    k,              \* _cross_platform_enrich: the items already processed
    calls,          \* the calls the adapters received, in order
    raised,         \* the exception that left the entry point ("" for none)
    results         \* what the earlier calls of discover on this instance got and returned

\* the outreach and store pipeline (app/outreach, app/workers, app/api/webhooks.py)
VARIABLES
    now,              \* datetime.utcnow(), in days
    prospect_rows,    \* Growth DB, table prospects: the row of each prospect id
    campaign_events,  \* Growth DB, table campaign_events, in the order of insertion
    applications,     \* CMS DB, table applications, in the order of insertion
    outbox,           \* the emails Brevo accepted, in order; a message id is a place in it
    bounced,          \* the prospects a bounce or unsubscribe event was processed for
    runs,             \* process_outreach: the locals of the run of each Celery worker
    store_tasks,      \* full_pipeline_task: where the chain of each prospect is
    quota             \* what is still to come from outside: the days that pass, the
                      \* events Brevo posts, the pipelines that are triggered

ovars == <<now, prospect_rows, campaign_events, applications, outbox, bounced, runs,
           store_tasks, quota>>

dvars == <<world, call, adapters, pc, queue, all_profiles, prospects, seen_emails,
           seen_urls, i, prospect, social, k, calls, raised, results>>

vars == <<dvars, ovars>>

Fresh ==
    /\ pc = "idle"
    /\ queue = <<>>
    /\ all_profiles = <<>>
    /\ prospects = <<>>
    /\ seen_emails = {}
    /\ seen_urls = {}
    /\ i = 0
    /\ prospect = <<>>
    /\ social = <<>>
    /\ k = 0
    /\ calls = <<>>
    /\ raised = ""
    /\ results = <<>>

\* a resolution run: one adapter, any list of profiles
InitResolveRun ==
    /\ world \in {[feed |-> f, site |-> NoSite, next |-> <<>>] : f \in ResolveFeeds}
    /\ call = [op |-> "discover", from_task |-> FALSE,
               search_queries |-> <<"fitness coach">>, platforms |-> None]
    /\ adapters = AdaptersDict(<<"youtube">>)
    /\ Fresh

\* a discover run: any adapters, any arguments, short lists
InitDiscoverRun ==
    /\ world \in {[feed |-> f, site |-> NoSite, next |-> <<>>] : f \in DiscoverFeeds}
    /\ call \in {[op |-> IF t THEN "task" ELSE "discover", from_task |-> t,
                     search_queries |-> q, platforms |-> p] :
                    t \in BOOLEAN,
                    q \in {None, <<>>, <<"yoga">>},
                    p \in {None, <<>>, <<"skool">>}}
    /\ ~call.from_task => call.search_queries # None
    /\ adapters \in {AdaptersDict(l) : l \in SeqsUpTo({"youtube", "skool"}, 2)}
    /\ call.from_task => adapters = <<>>
    /\ Fresh

\* a scrape_single run
InitSingleRun ==
    /\ world \in {[feed |-> NoFeed, site |-> s, next |-> <<>>] : s \in Sites}
    /\ call \in {[op |-> "scrape_single", platform |-> pf, platform_id |-> Id_jane] :
                    pf \in {"youtube", "twitter"}}
    /\ adapters \in {AdaptersDict(l) :
                        l \in {<<>>, <<"youtube">>, <<"youtube", "skool">>,
                               <<"skool", "youtube">>,
                               <<"youtube", "skool", "patreon">>}}
    /\ Fresh

\* a run that calls discover three times on one instance
InitRepeatRun ==
    /\ world \in {[feed |-> r.feed, site |-> RepeatSite, next |-> r.next] :
                     r \in RepeatFeeds}
    /\ call = [op |-> "discover", from_task |-> FALSE,
               search_queries |-> <<"fitness coach">>, platforms |-> None]
    /\ adapters = AdaptersDict(<<"youtube", "skool">>)
    /\ Fresh

\* a resolution run on the profiles of RulePool
InitRuleRun ==
    /\ world \in {[feed |-> f, site |-> NoSite, next |-> <<>>] : f \in RuleFeeds}
    /\ call = [op |-> "discover", from_task |-> FALSE,
               search_queries |-> <<"personal trainer">>, platforms |-> None]
    /\ adapters = AdaptersDict(<<"youtube">>)
    /\ Fresh

(***************************************************************************)
(* Outreach and store pipeline: the tables and the processes               *)
(***************************************************************************)
\* a column that is NULL holds <<>>, a column that has a value v holds <<v>>
NULL == <<>>

\* the ids of the table prospects, in ascending order
ProspectOrder == <<1>>

ProspectIds == {ProspectOrder[n] : n \in DOMAIN ProspectOrder}

\* the Celery worker processes that can run process_outreach_queue
Workers == {"worker-1", "worker-2"}

ProspectStatus ==
    {"discovered", "scraped", "content_generated", "store_created", "email_sent",
     "claimed", "rejected"}

EmailStatus == {"pending", "sent", "opened", "clicked", "bounced", "unsubscribed"}

\* the event names Brevo posts
BrevoEvents ==
    {"delivered", "opened", "click", "hard_bounce", "soft_bounce", "unsubscribed"}

\* a row of prospects as _scrape_single leaves it; every prospect of the
\* model has an email
ScrapedRow ==
    [status |-> "scraped", claim_token |-> NULL, kliq_application_id |-> NULL,
     claimed_at |-> NULL]

\* CampaignEvent(...) as _send_step builds it; the model has one active campaign
CampaignEvent(prospect_id, step, email_status, sent_at, brevo_message_id) ==
    [campaign_id |-> 1, prospect_id |-> prospect_id, step |-> step,
     email_status |-> email_status, sent_at |-> sent_at,
     brevo_message_id |-> brevo_message_id]

IdleRun == [pc |-> "idle", step |-> 0, due |-> <<>>, bounced |-> {}]

IdleTask == [pc |-> "idle", retries |-> 0, application_id |-> NULL]

\* the Growth DB after scraping, empty campaign tables, no process running
OutreachIdle ==
    /\ quota = [days |-> 0, brevo |-> 0, pipelines |-> 0]
    /\ now = 0
    /\ prospect_rows = [p \in ProspectIds |-> ScrapedRow]
    /\ campaign_events = <<>>
    /\ applications = <<>>
    /\ outbox = <<>>
    /\ bounced = {}
    /\ runs = [w \in Workers |-> IdleRun]
    /\ store_tasks = [p \in ProspectIds |-> IdleTask]

Init ==
    /\ InitResolveRun \/ InitDiscoverRun \/ InitSingleRun \/ InitRepeatRun \/ InitRuleRun
    /\ OutreachIdle


(***************************************************************************)
(* discover                                                                *)
(***************************************************************************)
\* all_profiles.extend(profiles): the objects the adapter returned
Extend(profiles, new) ==
    profiles \o [n \in 1..Len(new) |-> [new[n] EXCEPT !.ref = Len(profiles) + n]]

\* where discover goes on once the adapter loop has taken an adapter
AfterAdapter(rest, profiles) ==
    IF rest # <<>> THEN "discover" ELSE IF profiles # <<>> THEN "dedup" ELSE "sort"

\* (variant) the adapter loop catches NotImplementedError only
DiscoverCatches_OnlyNotImpl(kind) == kind = "notimpl"

\* the except clauses of the adapter loop: NotImplementedError, Exception
DiscoverCatches(kind) == kind \in {"notimpl", "error"}

ExceptionName(kind) == IF kind = "notimpl" THEN "NotImplementedError" ELSE "Exception"

DiscoverCall(pf) ==
    [op |-> "discover_coaches", platform |-> pf, arg |-> call.search_queries]

\* (variant) _discover_coaches hands search_queries on as they are
TaskQueries_NoDefault(search_queries) == search_queries

\* _discover_coaches: queries = search_queries or [...]
TaskQueries(search_queries) ==
    IF search_queries # None /\ search_queries # <<>> THEN search_queries
    ELSE DefaultQueries

\* _discover_coaches up to its call of discover: the adapters and the search
\* terms the task builds
DiscoverCoachesTask ==
    /\ pc = "idle"
    /\ call.op = "task"
    /\ adapters' = AdaptersDict(<<"youtube">>)
    /\ call' = [call EXCEPT !.op = "discover",
                            !.search_queries = TaskQueries(@)]
    /\ UNCHANGED <<ovars, results, world, pc, queue, all_profiles, prospects, seen_emails, seen_urls,
                   i, prospect, social, k, calls, raised>>

\* discover: target_adapters and the empty all_profiles
StartDiscover ==
    /\ pc = "idle"
    /\ call.op = "discover"
    /\ queue' = TargetAdapters(adapters, call.platforms)
    /\ pc' = AfterAdapter(queue', all_profiles)
    /\ UNCHANGED <<ovars, results, world, call, adapters, all_profiles, prospects, seen_emails,
                   seen_urls, i, prospect, social, k, calls, raised>>

\* one turn of the adapter loop, the adapter returning its profiles
DiscoverOk ==
    /\ pc = "discover"
    /\ LET pf == Head(queue)
           answer == world.feed[pf]
       IN  /\ answer.kind = "ok"
           /\ all_profiles' = Extend(all_profiles, answer.value)
           /\ calls' = Append(calls, DiscoverCall(pf))
    /\ queue' = Tail(queue)
    /\ pc' = AfterAdapter(queue', all_profiles')
    /\ UNCHANGED <<ovars, results, world, call, adapters, prospects, seen_emails, seen_urls, i,
                   prospect, social, k, raised>>

\* one turn of the adapter loop, the adapter raising
DiscoverRaises ==
    /\ pc = "discover"
    /\ LET pf == Head(queue)
           answer == world.feed[pf]
       IN  /\ answer.kind # "ok"
           /\ calls' = Append(calls, DiscoverCall(pf))
           /\ IF DiscoverCatches(answer.kind)
              THEN /\ queue' = Tail(queue)
                   /\ pc' = AfterAdapter(queue', all_profiles)
                   /\ raised' = raised
              ELSE /\ queue' = queue
                   /\ pc' = "raised"
                   /\ raised' = ExceptionName(answer.kind)
    /\ UNCHANGED <<ovars, results, world, call, adapters, all_profiles, prospects, seen_emails,
                   seen_urls, i, prospect, social, k>>

(***************************************************************************)
(* _deduplicate_and_enrich: one turn of its loop per action                *)
(***************************************************************************)
UrlKey(profile) == IF Truthy(profile.website_url) THEN profile.website_url ELSE <<>>

NameKey(profile) == Strip(Lower(profile.name))

\* the branch the loop body takes for a profile
DedupRule(ps, emails, urls, profile) ==
    IF Truthy(profile.email) /\ Lower(profile.email) \in emails THEN "email"
    ELSE IF UrlKey(profile) # <<>> /\ Lower(UrlKey(profile)) \in urls THEN "url"
    ELSE IF FindFuzzyNameMatch(ps, NameKey(profile)) # 0 THEN "name"
    ELSE "new"

\* (variant) the profile merged by name becomes the primary
MergeByName_NewPrimary(ps, profile) ==
    LET existing == FindFuzzyNameMatch(ps, NameKey(profile))
    IN  [ps EXCEPT ![existing].platform_profiles = Append(@, ps[existing].primary_profile),
                   ![existing].primary_profile = profile,
                   ![existing].email =
                       IF Truthy(profile.email) /\ ~Truthy(@) THEN profile.email ELSE @]

\* the fuzzy-name branch: append, and take the email if there is none yet
MergeByName(ps, profile) ==
    LET existing == FindFuzzyNameMatch(ps, NameKey(profile))
    IN  [ps EXCEPT ![existing].platform_profiles = Append(@, profile),
                   ![existing].email =
                       IF Truthy(profile.email) /\ ~Truthy(@) THEN profile.email ELSE @]

Current == all_profiles[i + 1]

Advance ==
    /\ i' = i + 1
    /\ pc' = IF i' < Len(all_profiles) THEN "dedup" ELSE "sort"
    /\ UNCHANGED <<ovars, results, world, call, adapters, queue, all_profiles, prospect, social, k,
                   calls, raised>>

DedupByEmail ==
    /\ pc = "dedup"
    /\ DedupRule(prospects, seen_emails, seen_urls, Current) = "email"
    /\ prospects' = MergeIntoExisting(prospects, Current, "email", Lower(Current.email))
    /\ UNCHANGED <<seen_emails, seen_urls>>
    /\ Advance

DedupByUrl ==
    /\ pc = "dedup"
    /\ DedupRule(prospects, seen_emails, seen_urls, Current) = "url"
    /\ prospects' = MergeIntoExisting(prospects, Current, "url", Lower(UrlKey(Current)))
    /\ UNCHANGED <<seen_emails, seen_urls>>
    /\ Advance

DedupByName ==
    /\ pc = "dedup"
    /\ DedupRule(prospects, seen_emails, seen_urls, Current) = "name"
    /\ prospects' = MergeByName(prospects, Current)
    /\ UNCHANGED <<seen_emails, seen_urls>>
    /\ Advance

DedupNew ==
    /\ pc = "dedup"
    /\ DedupRule(prospects, seen_emails, seen_urls, Current) = "new"
    /\ seen_emails' = IF Truthy(Current.email)
                      THEN seen_emails \cup {Lower(Current.email)} ELSE seen_emails
    /\ seen_urls' = IF UrlKey(Current) # <<>>
                    THEN seen_urls \cup {Lower(UrlKey(Current))} ELSE seen_urls
    /\ prospects' = Append(prospects, EnrichedProspect(Current, <<>>, <<>>, Current.email))
    /\ Advance

\* discover: prospects.sort(...) and return
SortProspects ==
    /\ pc = "sort"
    /\ prospects' = SortByQuality(prospects)
    /\ pc' = "returned"
    /\ UNCHANGED <<ovars, results, world, call, adapters, queue, all_profiles, seen_emails, seen_urls,
                   i, prospect, social, k, calls, raised>>

\* (variant) seen_emails and seen_urls outlive the call
NewLocals_Kept ==
    [prospects |-> <<>>, seen_emails |-> seen_emails, seen_urls |-> seen_urls]

\* _deduplicate_and_enrich: the prospects and the seen sets it starts with
NewLocals == [prospects |-> <<>>, seen_emails |-> {}, seen_urls |-> {}]

\* discover has returned and is called again on the same instance: a new
\* all_profiles, and new locals of _deduplicate_and_enrich
DiscoverAgain ==
    /\ pc = "returned"
    /\ call.op = "discover"
    /\ world.next # <<>>
    /\ results' = Append(results, [profiles |-> all_profiles, prospects |-> prospects])
    /\ world' = [world EXCEPT !.feed = Head(world.next), !.next = Tail(world.next)]
    /\ pc' = "idle"
    /\ queue' = <<>>
    /\ all_profiles' = <<>>
    /\ prospects' = NewLocals.prospects
    /\ seen_emails' = NewLocals.seen_emails
    /\ seen_urls' = NewLocals.seen_urls
    /\ i' = 0
    /\ calls' = <<>>
    /\ UNCHANGED <<ovars, call, adapters, prospect, social, k, raised>>


(***************************************************************************)
(* scrape_single and _cross_platform_enrich                                *)
(***************************************************************************)
\* what scrape_profile, scrape_content and scrape_pricing of the adapter of
\* a platform answer for an id; an id the platform does not hold fails
Fetch(pf, id) ==
    IF <<pf, id>> \in DOMAIN world.site THEN world.site[<<pf, id>>]
    ELSE [profile |-> Failed, content |-> Failed, pricing |-> Failed]

\* the outcome of the three calls in a row: "ok", or what the first failing raises
FetchKind(f) ==
    IF f.profile.kind # "ok" THEN f.profile.kind
    ELSE IF f.content.kind # "ok" THEN f.content.kind
    ELSE f.pricing.kind

\* the calls the adapter received until the first one raised
FetchCalls(pf, id, f) ==
    <<[op |-> "scrape_profile", platform |-> pf, arg |-> id]>>
    \o (IF f.profile.kind = "ok"
        THEN <<[op |-> "scrape_content", platform |-> pf, arg |-> id]>> ELSE <<>>)
    \o (IF f.profile.kind = "ok" /\ f.content.kind = "ok"
        THEN <<[op |-> "scrape_pricing", platform |-> pf, arg |-> id]>> ELSE <<>>)

\* platform_id = link.split("/")[-1].lstrip("@")
PlatformIdOf(link) == LStripAt(LastSegment(link))

\* (variant) the enrichment loop catches NotImplementedError only
EnrichCatches_OnlyNotImpl(kind) == kind = "notimpl"

\* the except clauses of the enrichment loop: NotImplementedError, Exception
EnrichCatches(kind) == kind \in {"notimpl", "error"}

\* where _cross_platform_enrich goes on after n of the items it iterates
AfterItem(n, items) == IF n < Len(items) THEN "enrich" ELSE "returned"

\* (variant) the email found on another platform replaces the prospect's
EnrichEmail_Overwrite(email, found) == IF Truthy(found) THEN found ELSE email

\* if not prospect.email and profile.email: prospect.email = profile.email
EnrichEmail(email, found) == IF ~Truthy(email) /\ Truthy(found) THEN found ELSE email

\* scrape_single: no adapter is registered for the platform
ScrapeSingleNoAdapter ==
    /\ pc = "idle"
    /\ call.op = "scrape_single"
    /\ ~HasAdapter(adapters, call.platform)
    /\ pc' = "raised"
    /\ raised' = "ValueError"
    /\ UNCHANGED <<ovars, results, world, call, adapters, queue, all_profiles, prospects, seen_emails,
                   seen_urls, i, prospect, social, k, calls>>

\* scrape_single: one of the three scrape calls raises
ScrapeSingleRaises ==
    /\ pc = "idle"
    /\ call.op = "scrape_single"
    /\ HasAdapter(adapters, call.platform)
    /\ LET f == Fetch(call.platform, call.platform_id)
       IN  /\ FetchKind(f) # "ok"
           /\ calls' = calls \o FetchCalls(call.platform, call.platform_id, f)
           /\ raised' = ExceptionName(FetchKind(f))
    /\ pc' = "raised"
    /\ UNCHANGED <<ovars, results, world, call, adapters, queue, all_profiles, prospects, seen_emails,
                   seen_urls, i, prospect, social, k>>

\* scrape_single: the prospect is built; _cross_platform_enrich takes social
ScrapeSingleOk ==
    /\ pc = "idle"
    /\ call.op = "scrape_single"
    /\ HasAdapter(adapters, call.platform)
    /\ LET f == Fetch(call.platform, call.platform_id)
           profile == [f.profile.value EXCEPT !.ref = 1]
           email == IF Truthy(profile.email) THEN profile.email
                    ELSE ExtractEmail(profile)
           built == EnrichedProspect(profile, f.content.value, f.pricing.value, email)
       IN  /\ FetchKind(f) = "ok"
           /\ calls' = calls \o FetchCalls(call.platform, call.platform_id, f)
           /\ prospect' = <<built>>
           /\ social' = SocialLinks(built)
    /\ k' = 0
    /\ pc' = AfterItem(0, social')
    /\ UNCHANGED <<ovars, results, world, call, adapters, queue, all_profiles, prospects, seen_emails,
                   seen_urls, i, raised>>

\* (variant) the loop reads prospect.social_links anew in every turn
EnrichItems_Live == SocialLinks(prospect[1])

\* the dict the enrichment loop iterates: social, taken before the loop
EnrichItems == social

Item == EnrichItems[k + 1]

\* one turn of the enrichment loop: no adapter for the platform name
EnrichNoAdapter ==
    /\ pc = "enrich"
    /\ ~HasAdapter(adapters, Item[1])
    /\ k' = k + 1
    /\ UNCHANGED <<ovars, results, world, call, adapters, queue, all_profiles, prospects, seen_emails,
                   seen_urls, i, prospect, social, calls, raised>>
    /\ pc' = AfterItem(k', EnrichItems')

\* one turn of the enrichment loop: the three calls return
EnrichOk ==
    /\ pc = "enrich"
    /\ HasAdapter(adapters, Item[1])
    /\ LET id == PlatformIdOf(Item[2])
           f == Fetch(Item[1], id)
           p == prospect[1]
           profile == [f.profile.value EXCEPT !.ref = Len(p.platform_profiles) + 2]
       IN  /\ FetchKind(f) = "ok"
           /\ calls' = calls \o FetchCalls(Item[1], id, f)
           /\ prospect' =
                <<[p EXCEPT !.platform_profiles = Append(@, profile),
                            !.all_content = @ \o f.content.value,
                            !.all_pricing = @ \o f.pricing.value,
                            !.email = EnrichEmail(@, profile.email)]>>
    /\ k' = k + 1
    /\ UNCHANGED <<ovars, results, world, call, adapters, queue, all_profiles, prospects, seen_emails,
                   seen_urls, i, social, raised>>
    /\ pc' = AfterItem(k', EnrichItems')

\* one turn of the enrichment loop: one of the three calls raises
EnrichRaises ==
    /\ pc = "enrich"
    /\ HasAdapter(adapters, Item[1])
    /\ UNCHANGED <<ovars, results, world, call, adapters, queue, all_profiles, prospects, seen_emails,
                   seen_urls, i, prospect, social>>
    /\ LET id == PlatformIdOf(Item[2])
           f == Fetch(Item[1], id)
       IN  /\ FetchKind(f) # "ok"
           /\ calls' = calls \o FetchCalls(Item[1], id, f)
           /\ IF EnrichCatches(FetchKind(f))
              THEN /\ k' = k + 1
                   /\ pc' = AfterItem(k', EnrichItems')
                   /\ raised' = raised
              ELSE /\ k' = k
                   /\ pc' = "raised"
                   /\ raised' = ExceptionName(FetchKind(f))

Next ==
    \/ DiscoverCoachesTask
    \/ StartDiscover
    \/ DiscoverOk
    \/ DiscoverRaises
    \/ DedupByEmail
    \/ DedupByUrl
    \/ DedupByName
    \/ DedupNew
    \/ SortProspects
    \/ DiscoverAgain
    \/ ScrapeSingleNoAdapter
    \/ ScrapeSingleRaises
    \/ ScrapeSingleOk
    \/ EnrichNoAdapter
    \/ EnrichOk
    \/ EnrichRaises

Spec == Init /\ [][Next]_vars


(***************************************************************************)
(* Time                                                                    *)
(***************************************************************************)
MaxDays == 7

\* a day passes, between the tasks: a task lives ten minutes at most
\* (celery_app.py: task_time_limit)
Tick ==
    /\ quota.days > 0
    /\ quota' = [quota EXCEPT !.days = @ - 1]
    /\ \A w \in DOMAIN runs : runs[w].pc = "idle"
    /\ \A p \in ProspectIds : store_tasks[p].pc = "idle"
    /\ now' = now + 1
    /\ UNCHANGED <<dvars, prospect_rows, campaign_events, applications, outbox, bounced,
                   runs, store_tasks>>

(***************************************************************************)
(* process_outreach, run by process_outreach_queue in a worker: one action *)
(* per statement that reads or writes the database                         *)
(***************************************************************************)
\* (variant) both reminders wait three days after the step before
DaysSinceLast_Three(step) == 3

\* process_outreach: days_since_last of its call of _find_due_for_step for a step
DaysSinceLast(step) == IF step = 2 THEN 3 ELSE 4

\* the Prospect object a query loads: its id and, of its columns, the claim
\* token that goes into the email
Loaded(rows, p) == [id |-> p, claim_token |-> rows[p].claim_token]

\* _find_unsent_prospects; every prospect of the model has an email
FindUnsentProspects(rows) ==
    LET Unsent(p) == /\ rows[p].status = "store_created"
                     /\ rows[p].claim_token # NULL
        found == SelectSeq(ProspectOrder, Unsent)
    IN  [n \in 1..Len(found) |-> Loaded(rows, found[n])]

\* _find_due_for_step: the rows of the join that pass the filter, and of them
\* those whose prospect has no event of this step
FindDueForStep(step, days_since_last, utcnow, events, rows) ==
    LET previous_step == step - 1
        cutoff == utcnow - days_since_last
        Due(e) ==
            /\ e.step = previous_step
            /\ e.email_status \in {"sent", "opened", "clicked"}
            /\ e.sent_at # NULL
            /\ e.sent_at[1] <= cutoff
            /\ rows[e.prospect_id].status # "claimed"
            /\ rows[e.prospect_id].status # "rejected"
            /\ ~\E x \in DOMAIN events :
                    /\ events[x].prospect_id = e.prospect_id
                    /\ events[x].step = step
        found == SelectSeq(events, Due)
    IN  [n \in 1..Len(found) |-> Loaded(rows, found[n].prospect_id)]

\* _send_step: the select that looks for an event of this step
AlreadySent(events, prospect_id, step) ==
    \E x \in DOMAIN events :
        /\ events[x].prospect_id = prospect_id
        /\ events[x].campaign_id = 1
        /\ events[x].step = step

\* process_outreach starts in a worker: _find_unsent_prospects
ProcessOutreach(w) ==
    /\ runs[w].pc = "idle"
    /\ runs' = [runs EXCEPT ![w] = [pc |-> "loop", step |-> 1,
                                    due |-> FindUnsentProspects(prospect_rows),
                                    bounced |-> bounced]]
    /\ UNCHANGED <<quota, dvars, now, prospect_rows, campaign_events, applications, outbox,
                   bounced, store_tasks>>

\* the loop of a step is over: _find_due_for_step for the next step
FindDue(w) ==
    /\ runs[w].pc = "loop"
    /\ runs[w].due = <<>>
    /\ runs[w].step < 3
    /\ LET step == runs[w].step + 1
       IN  runs' = [runs EXCEPT ![w] =
                      [pc |-> "loop", step |-> step,
                       due |-> FindDueForStep(step, DaysSinceLast(step), now,
                                              campaign_events, prospect_rows),
                       bounced |-> bounced]]
    /\ UNCHANGED <<quota, dvars, now, prospect_rows, campaign_events, applications, outbox,
                   bounced, store_tasks>>

\* the loop of step 3 is over: process_outreach returns
ProcessOutreachReturns(w) ==
    /\ runs[w].pc = "loop"
    /\ runs[w].due = <<>>
    /\ runs[w].step = 3
    /\ runs' = [runs EXCEPT ![w] = IdleRun]
    /\ UNCHANGED <<quota, dvars, now, prospect_rows, campaign_events, applications, outbox,
                   bounced, store_tasks>>

\* _send_step up to its check for an event of this step
SendStepCheck(w) ==
    /\ runs[w].pc = "loop"
    /\ runs[w].due # <<>>
    /\ runs' = IF AlreadySent(campaign_events, Head(runs[w].due).id, runs[w].step)
               THEN [runs EXCEPT ![w].due = Tail(@)]
               ELSE [runs EXCEPT ![w].pc = "send"]
    /\ UNCHANGED <<quota, dvars, now, prospect_rows, campaign_events, applications, outbox,
                   bounced, store_tasks>>

\* _send_step from brevo.send_email to the commit, Brevo accepting the email
SendStepOk(w) ==
    /\ runs[w].pc = "send"
    /\ LET p == Head(runs[w].due)
           step == runs[w].step
           message_id == Len(outbox) + 1
       IN  /\ outbox' = Append(outbox,
                   [prospect_id |-> p.id, step |-> step, sent_at |-> now,
                    claim_token |-> p.claim_token,
                    status |-> prospect_rows[p.id].status,
                    bounced |-> p.id \in runs[w].bounced])
           /\ campaign_events' = Append(campaign_events,
                   CampaignEvent(p.id, step, "sent", <<now>>, <<message_id>>))
           /\ prospect_rows' = IF step = 1
                               THEN [prospect_rows EXCEPT ![p.id].status = "email_sent"]
                               ELSE prospect_rows
    /\ runs' = [runs EXCEPT ![w].pc = "loop", ![w].due = Tail(@)]
    /\ UNCHANGED <<quota, dvars, now, applications, bounced, store_tasks>>

\* _send_step from brevo.send_email to the commit, Brevo refusing the email
SendStepFails(w) ==
    /\ runs[w].pc = "send"
    /\ campaign_events' = Append(campaign_events,
           CampaignEvent(Head(runs[w].due).id, runs[w].step, "bounced", NULL, NULL))
    /\ runs' = [runs EXCEPT ![w].pc = "loop", ![w].due = Tail(@)]
    /\ UNCHANGED <<quota, dvars, now, prospect_rows, applications, outbox, bounced, store_tasks>>

(***************************************************************************)
(* Webhooks                                                                *)
(***************************************************************************)
\* the claim tokens a coach got by email that still select a prospect
ClaimTokens ==
    {outbox[n].claim_token : n \in DOMAIN outbox}
        \cap {prospect_rows[p].claim_token : p \in ProspectIds}

\* claim_store (POST /claim) with a claim token out of an email
ClaimStore(token) ==
    /\ LET p == CHOOSE q \in ProspectIds : prospect_rows[q].claim_token = token
       IN  prospect_rows' =
             IF prospect_rows[p].status = "claimed"
             THEN prospect_rows
             ELSE [prospect_rows EXCEPT ![p].status = "claimed",
                                        ![p].claimed_at = <<now>>]
    /\ UNCHANGED <<quota, dvars, now, campaign_events, applications, outbox, bounced, runs,
                   store_tasks>>

\* the place of the campaign event of a message
EventOf(message_id) ==
    CHOOSE x \in DOMAIN campaign_events :
        campaign_events[x].brevo_message_id = <<message_id>>

\* brevo_webhook: the email_status it leaves
WebhookStatus(event_type, email_status) ==
    CASE event_type = "opened" -> "opened"
      [] event_type = "click" -> "clicked"
      [] event_type \in {"hard_bounce", "soft_bounce"} -> "bounced"
      [] event_type = "unsubscribed" -> "unsubscribed"
      [] OTHER -> email_status

\* tracking.py: EVENT_MAP
EVENT_MAP(event_type) ==
    CASE event_type = "delivered" -> "sent"
      [] event_type = "opened" -> "opened"
      [] event_type = "click" -> "clicked"
      [] event_type \in {"hard_bounce", "soft_bounce"} -> "bounced"
      [] event_type = "unsubscribed" -> "unsubscribed"

\* the prospects a bounce or unsubscribe event has been processed for
Bounces(event_type, prospect_id) ==
    IF event_type \in {"hard_bounce", "soft_bounce", "unsubscribed"}
    THEN bounced \cup {prospect_id} ELSE bounced

\* brevo_webhook (POST /brevo) for an event of a message that was sent
BrevoWebhook(message_id, event_type) ==
    /\ quota.brevo > 0
    /\ quota' = [quota EXCEPT !.brevo = @ - 1]
    /\ LET x == EventOf(message_id)
       IN  /\ campaign_events' =
                 [campaign_events EXCEPT ![x].email_status = WebhookStatus(event_type, @)]
           /\ bounced' = Bounces(event_type, campaign_events[x].prospect_id)
    /\ UNCHANGED <<dvars, now, prospect_rows, applications, outbox, runs, store_tasks>>

\* process_brevo_event for an event of a message that was sent
ProcessBrevoEvent(message_id, event_type) ==
    /\ quota.brevo > 0
    /\ quota' = [quota EXCEPT !.brevo = @ - 1]
    /\ LET x == EventOf(message_id)
           new_status == EVENT_MAP(event_type)
           p == campaign_events[x].prospect_id
       IN  /\ campaign_events' = [campaign_events EXCEPT ![x].email_status = new_status]
           /\ prospect_rows' = IF new_status \in {"bounced", "unsubscribed"}
                               THEN [prospect_rows EXCEPT ![p].status = "rejected"]
                               ELSE prospect_rows
           /\ bounced' = Bounces(event_type, p)
    /\ UNCHANGED <<dvars, now, applications, outbox, runs, store_tasks>>

(***************************************************************************)
(* full_pipeline_task: generate_content_task, then create_store_task       *)
(***************************************************************************)
\* create_store_task: max_retries
MaxRetries == 1

\* full_pipeline_task: the chain is queued (POST /run/{prospect_id})
FullPipelineTask(p) ==
    /\ store_tasks[p].pc = "idle"
    /\ quota.pipelines > 0
    /\ quota' = [quota EXCEPT !.pipelines = @ - 1]
    /\ store_tasks' = [store_tasks EXCEPT ![p] = [IdleTask EXCEPT !.pc = "generate"]]
    /\ UNCHANGED <<dvars, now, prospect_rows, campaign_events, applications, outbox,
                   bounced, runs>>

\* _generate_all_content: the status it commits
GenerateContent(p) ==
    /\ store_tasks[p].pc = "generate"
    /\ prospect_rows' = [prospect_rows EXCEPT ![p].status = "content_generated"]
    /\ store_tasks' = [store_tasks EXCEPT ![p].pc = "create"]
    /\ UNCHANGED <<quota, dvars, now, campaign_events, applications, outbox, bounced, runs>>

\* _get_next_application_id
NextApplicationId(apps) ==
    IF apps = <<>> THEN 1
    ELSE 1 + (CHOOSE m \in {apps[n].id : n \in DOMAIN apps} :
                  \A n \in DOMAIN apps : apps[n].id <= m)

\* _create_store up to the commit of the CMS transaction: build_store adds the
\* application, for the name and the email of the prospect
BuildStore(p) ==
    /\ store_tasks[p].pc = "create"
    /\ LET app_id == NextApplicationId(applications)
       IN  /\ applications' = Append(applications, [id |-> app_id, prospect_id |-> p])
           /\ store_tasks' = [store_tasks EXCEPT ![p].pc = "built",
                                                 ![p].application_id = <<app_id>>]
    /\ UNCHANGED <<quota, dvars, now, prospect_rows, campaign_events, outbox, bounced, runs>>

\* _create_store after the CMS commit: the prospect gets the store, a new
\* claim token (one per store) and the status
CreateStoreReturns(p) ==
    /\ store_tasks[p].pc = "built"
    /\ prospect_rows' =
         [prospect_rows EXCEPT ![p].kliq_application_id = store_tasks[p].application_id,
                               ![p].claim_token = store_tasks[p].application_id,
                               ![p].status = "store_created"]
    /\ store_tasks' = [store_tasks EXCEPT ![p] = IdleTask]
    /\ UNCHANGED <<quota, dvars, now, campaign_events, applications, outbox, bounced, runs>>

\* _create_store raises after the CMS commit: create_store_task retries
\* while it has retries left
CreateStoreRaises(p) ==
    /\ store_tasks[p].pc = "built"
    /\ store_tasks' =
         IF store_tasks[p].retries < MaxRetries
         THEN [store_tasks EXCEPT ![p].pc = "create", ![p].retries = @ + 1,
                                  ![p].application_id = NULL]
         ELSE [store_tasks EXCEPT ![p] = IdleTask]
    /\ UNCHANGED <<quota, dvars, now, prospect_rows, campaign_events, applications, outbox,
                   bounced, runs>>

MaxBrevoEvents == 1

MaxPipelines == 2

\* a row of prospects as _create_store leaves it, and the application it built
StoreCreatedRow(application_id) ==
    [status |-> "store_created", claim_token |-> <<application_id>>,
     kliq_application_id |-> <<application_id>>, claimed_at |-> NULL]

StoresCreated ==
    /\ prospect_rows = [p \in ProspectIds |-> StoreCreatedRow(p)]
    /\ applications = [n \in DOMAIN ProspectOrder |->
                         [id |-> ProspectOrder[n], prospect_id |-> ProspectOrder[n]]]

NothingSent ==
    /\ now = 0
    /\ campaign_events = <<>>
    /\ outbox = <<>>
    /\ bounced = {}
    /\ store_tasks = [p \in ProspectIds |-> IdleTask]

\* the stores are created; one worker, and Brevo posts events
InitReminders ==
    /\ StoresCreated
    /\ NothingSent
    /\ runs = [w \in {"worker-1"} |-> IdleRun]
    /\ quota = [days |-> MaxDays, brevo |-> MaxBrevoEvents, pipelines |-> 0]

\* the stores are created; two workers take overlapping beat ticks
InitOverlap ==
    /\ StoresCreated
    /\ NothingSent
    /\ runs = [w \in Workers |-> IdleRun]
    /\ quota = [days |-> MaxDays, brevo |-> 0, pipelines |-> 0]

\* the prospects are scraped; the pipeline is triggered, also more than once
InitPipeline ==
    /\ prospect_rows = [p \in ProspectIds |-> ScrapedRow]
    /\ applications = <<>>
    /\ NothingSent
    /\ runs = [w \in {"worker-1"} |-> IdleRun]
    /\ quota = [days |-> 0, brevo |-> MaxBrevoEvents, pipelines |-> MaxPipelines]

OutreachInit ==
    /\ world = [feed |-> NoFeed, site |-> NoSite, next |-> <<>>]
    /\ call = [op |-> "process_outreach_queue"]
    /\ adapters = <<>>
    /\ Fresh
    /\ InitReminders \/ InitOverlap \/ InitPipeline

OutreachNext ==
    \/ Tick
    \/ \E w \in DOMAIN runs : ProcessOutreach(w)
    \/ \E w \in DOMAIN runs : FindDue(w)
    \/ \E w \in DOMAIN runs : ProcessOutreachReturns(w)
    \/ \E w \in DOMAIN runs : SendStepCheck(w)
    \/ \E w \in DOMAIN runs : SendStepOk(w)
    \/ \E w \in DOMAIN runs : SendStepFails(w)
    \/ \E token \in ClaimTokens : ClaimStore(token)
    \/ \E message_id \in DOMAIN outbox, event_type \in BrevoEvents :
          BrevoWebhook(message_id, event_type)
    \/ \E message_id \in DOMAIN outbox, event_type \in BrevoEvents :
          ProcessBrevoEvent(message_id, event_type)
    \/ \E p \in ProspectIds : FullPipelineTask(p)
    \/ \E p \in ProspectIds : GenerateContent(p)
    \/ \E p \in ProspectIds : BuildStore(p)
    \/ \E p \in ProspectIds : CreateStoreReturns(p)
    \/ \E p \in ProspectIds : CreateStoreRaises(p)

OutreachSpec == OutreachInit /\ [][OutreachNext]_vars


(***************************************************************************)
(* Properties                                                              *)
(***************************************************************************)
DiscoverRun == call.op = "discover"
SingleRun == call.op = "scrape_single"

\* _deduplicate_and_enrich is at work or has returned
Resolving == DiscoverRun /\ pc \in {"dedup", "sort", "returned"}

\* the profiles _deduplicate_and_enrich has processed
Processed == IF pc = "dedup" THEN SubSeq(all_profiles, 1, i) ELSE all_profiles

\* the places a profile holds in the prospects: <<prospect, position>>,
\* position 1 the primary
Places(profile) ==
    {<<n, m>> \in (1..Len(prospects)) \X (1..(Len(all_profiles) + 1)) :
        /\ m <= Len(AllProfiles(prospects[n]))
        /\ AllProfiles(prospects[n])[m] = profile}

\* the prospect a processed profile is part of (0: of none)
EntityOf(profile) ==
    IF Places(profile) = {} THEN 0 ELSE (CHOOSE pl \in Places(profile) : TRUE)[1]

\* C1: every profile _deduplicate_and_enrich has processed is the primary or
\* a secondary of exactly one prospect, and the prospects hold nothing but
\* processed profiles, each prospect with a primary among them.
C1_Partition ==
    Resolving =>
        /\ \A n \in 1..Len(Processed) : Cardinality(Places(Processed[n])) = 1
        /\ \A n \in 1..Len(prospects) :
              \A m \in 1..Len(AllProfiles(prospects[n])) :
                 \E q \in 1..Len(Processed) : Processed[q] = AllProfiles(prospects[n])[m]

\* a returned list of two prospects, one of them with a profile merged by
\* email under another letter case and one merged by website
C1_Witness ==
    /\ Resolving
    /\ pc = "returned"
    /\ Len(all_profiles) = 4
    /\ Len(prospects) = 2
    /\ \E n \in 1..Len(prospects) :
          /\ Len(prospects[n].platform_profiles) = 2
          /\ prospects[n].primary_profile.email = E_A
          /\ \E m \in 1..2 : prospects[n].platform_profiles[m].email = E_a
          /\ \E m \in 1..2 : prospects[n].platform_profiles[m].website_url = U_X


\* the step of _deduplicate_and_enrich appends the profile to prospect n
\* and leaves the other prospects as they were
MergedInto(n) ==
    /\ Len(prospects') = Len(prospects)
    /\ prospects'[n].platform_profiles = Append(prospects[n].platform_profiles, Current)
    /\ \A m \in 1..Len(prospects) :
          m # n => prospects'[m].platform_profiles = prospects[m].platform_profiles

\* two emails, two websites that are equal when case is ignored
SameEmail(a, b) == Truthy(a) /\ Truthy(b) /\ Lower(a) = Lower(b)
SameWebsite(a, b) == Truthy(a) /\ Truthy(b) /\ Lower(a) = Lower(b)

\* the website of the profile is the website of one of the prospect's profiles
WebsiteOf(profile, p) ==
    \E m \in 1..Len(AllProfiles(p)) :
        SameWebsite(profile.website_url, AllProfiles(p)[m].website_url)

\* the ratio of two names is at least 0.85
Similar(a, b) == LET r == Ratio(a, b) IN r[1] * 100 >= 85 * r[2]

NameOf(p) == Strip(Lower(p.primary_profile.name))

\* the prospects the profile matches exactly: those with its email as their
\* resolved email and, when there is none, those with its website
ExactMatches(profile) ==
    LET byEmail == {x \in 1..Len(prospects) : SameEmail(profile.email, prospects[x].email)}
        byWebsite == {x \in 1..Len(prospects) : WebsiteOf(profile, prospects[x])}
    IN  IF byEmail # {} THEN byEmail ELSE byWebsite

\* C2: a profile whose email is the resolved email of a prospect, or, with
\* no prospect of its email, whose website is a website of a prospect, is
\* merged into such a prospect, also when its name is similar to the name of
\* another prospect.
C2_StepExactFirst ==
    (/\ DiscoverRun
     /\ pc = "dedup"
     /\ ExactMatches(Current) # {}
     /\ \E y \in 1..Len(prospects) :
           /\ y \notin ExactMatches(Current)
           /\ Similar(NameKey(Current), NameOf(prospects[y])))
    => \E x \in ExactMatches(Current) : MergedInto(x)

\* C2: every step of _deduplicate_and_enrich lets an exact match decide before
\* a similar name
C2_ExactBeforeFuzzy == [][C2_StepExactFirst]_vars

\* C3: two processed profiles whose emails are equal when case is ignored
\* are part of the same prospect.
C3_EmailIgnoresCase ==
    Resolving =>
        \A n, m \in 1..Len(Processed) :
            SameEmail(Processed[n].email, Processed[m].email)
            => EntityOf(Processed[n]) = EntityOf(Processed[m])

\* two profiles with the same fields
SameRecord(a, b) == [a EXCEPT !.ref = 0] = [b EXCEPT !.ref = 0]

\* C4: the same record resolved twice from an empty list gives one prospect,
\* the first copy its primary and the second its only secondary.
C4_Idempotent ==
    (Resolving /\ pc \in {"sort", "returned"} /\ Len(all_profiles) = 2
     /\ SameRecord(all_profiles[1], all_profiles[2]))
    => /\ Len(prospects) = 1
       /\ prospects[1].primary_profile = all_profiles[1]
       /\ prospects[1].platform_profiles = <<all_profiles[2]>>

\* the record without email, website and name has been resolved twice
C4_Witness ==
    /\ Resolving
    /\ pc = "returned"
    /\ Len(all_profiles) = 2
    /\ SameRecord(all_profiles[1], all_profiles[2])
    /\ all_profiles[1].name = <<>>
    /\ all_profiles[1].email = None
    /\ all_profiles[1].website_url = None
    /\ Len(prospects) = 1

\* no prospect has the email of the profile as its resolved email or its
\* website as the website of one of its profiles
NoExactMatch(profile) ==
    \A n \in 1..Len(prospects) :
        /\ ~SameEmail(profile.email, prospects[n].email)
        /\ ~WebsiteOf(profile, prospects[n])

\* C5: a profile without email or website match is appended to a prospect
\* whose name has a ratio of at least 0.85 with its name when there is one,
\* and becomes the primary of a new prospect otherwise.
C5_StepNameRule ==
    (DiscoverRun /\ pc = "dedup" /\ NoExactMatch(Current)) =>
        LET similar == {n \in 1..Len(prospects) :
                           Similar(NameKey(Current), NameOf(prospects[n]))}
        IN  IF similar # {}
            THEN \E n \in similar : MergedInto(n)
            ELSE /\ Len(prospects') = Len(prospects) + 1
                 /\ SubSeq(prospects', 1, Len(prospects)) = prospects
                 /\ prospects'[Len(prospects')].primary_profile = Current
                 /\ prospects'[Len(prospects')].platform_profiles = <<>>

\* C5: "Jane Doe" and "Jane  Doe" give one prospect, "Jane Doe" and "John Doe" two
C5_Examples ==
    (Resolving /\ pc = "returned" /\ Len(all_profiles) = 2) =>
        LET names == {all_profiles[1].name, all_profiles[2].name}
        IN  /\ names = {S_JaneDoe, S_JaneDoe2} => Len(prospects) = 1
            /\ names = {S_JaneDoe, S_JohnDoe} => Len(prospects) = 2

\* C5: the name rule merges from ratio 0.85 on, in every step and in the two
\* examples
C5_NameThreshold == []C5_Examples /\ [][C5_StepNameRule]_vars

\* two names whose ratio is 0.85 itself have been merged
C5_Witness ==
    /\ Resolving
    /\ pc = "returned"
    /\ Len(all_profiles) = 2
    /\ all_profiles[1].name = S_A17
    /\ all_profiles[2].name = S_A17B6
    /\ Ratio(NameKey(all_profiles[2]), NameKey(all_profiles[1])) = <<34, 40>>
    /\ Len(prospects) = 1


\* the audience of a list of profiles: their follower, subscriber and
\* member counts summed
RECURSIVE Audience(_)
Audience(profiles) ==
    IF profiles = <<>> THEN 0
    ELSE Head(profiles).follower_count + Head(profiles).subscriber_count
         + Head(profiles).member_count + Audience(Tail(profiles))

\* the place a prospect has in the list before the sort
PlaceBefore(p) == CHOOSE n \in 1..Len(prospects) : prospects[n] = p

\* C6: the list discover returns is the list of the resolved prospects sorted,
\* descending and stable, by (has a resolved email, audience over all the
\* prospect's profiles).
C6_StepSort ==
    (DiscoverRun /\ pc = "sort") =>
        LET key(p) == <<IF p.email # None THEN 1 ELSE 0, Audience(AllProfiles(p))>>
            after == prospects'
        IN  /\ Len(after) = Len(prospects)
            /\ \A n \in 1..Len(prospects) : \E m \in 1..Len(after) : after[m] = prospects[n]
            /\ \A n, m \in 1..Len(after) :
                  n < m =>
                     \/ key(after[n])[1] > key(after[m])[1]
                     \/ /\ key(after[n])[1] = key(after[m])[1]
                        /\ key(after[n])[2] > key(after[m])[2]
                     \/ /\ key(after[n]) = key(after[m])
                        /\ PlaceBefore(after[n]) < PlaceBefore(after[m])

\* C6: the sort step of discover orders the prospects by that key
C6_SortedByAudience == [][C6_StepSort]_vars

\* scrape_single has built the prospect: _cross_platform_enrich is running or over
Enriching == SingleRun /\ prospect # <<>>

\* the social references of the prospect before enrichment: those of its primary
ReferencesBefore == prospect[1].primary_profile.social_links

\* the references before enrichment that have a registered adapter
Followable == SelectSeq(ReferencesBefore, LAMBDA it : HasAdapter(adapters, it[1]))

\* the profile fetches of the enrichment: scrape_single's own three calls left out
EnrichFetches ==
    SelectSeq(SubSeq(calls, 4, Len(calls)), LAMBDA c : c.op = "scrape_profile")

FetchOf(it) == [op |-> "scrape_profile", platform |-> it[1], arg |-> PlatformIdOf(it[2])]

\* C7: the profile fetches of an enrichment are, in order, fetches of the
\* references the prospect had before enrichment, one at most for each.
C7_FetchesOfReferencesBefore ==
    Enriching =>
        /\ Len(EnrichFetches) <= Len(Followable)
        /\ Len(Followable) <= Len(ReferencesBefore)
        /\ \A n \in 1..Len(EnrichFetches) : EnrichFetches[n] = FetchOf(Followable[n])
        /\ Len(prospect[1].platform_profiles) <= Len(EnrichFetches)

\* C7: every turn of the enrichment loop takes one of the references the
\* prospect had before enrichment, so the loop ends after as many turns as
\* there were references
C7_StepTakesReference ==
    (SingleRun /\ pc = "enrich") =>
        /\ k < Len(ReferencesBefore)
        /\ k' = k + 1
        /\ prospect'[1].primary_profile = prospect[1].primary_profile
        /\ pc' = "enrich" => k' < Len(ReferencesBefore)
        /\ Len(EnrichFetches') <= Len(EnrichFetches) + 1

\* C7: enrichment follows the references present before it, and nothing else
C7_OneHop == []C7_FetchesOfReferencesBefore /\ [][C7_StepTakesReference]_vars

\* two sources that reference each other: the primary names skool, the skool
\* profile merged names youtube, an adapter for youtube is registered, and
\* the one fetch has been skool's
C7_Witness ==
    /\ Enriching
    /\ pc = "returned"
    /\ ReferencesBefore = << <<"skool", L_skool>> >>
    /\ prospect[1].primary_profile.platform = "youtube"
    /\ Len(prospect[1].platform_profiles) = 1
    /\ \E n \in 1..Len(prospect[1].platform_profiles[1].social_links) :
          prospect[1].platform_profiles[1].social_links[n][1] = "youtube"
    /\ HasAdapter(adapters, "youtube")
    /\ Len(EnrichFetches) = 1

\* the references before enrichment whose three scrape calls all return
Fetchable ==
    SelectSeq(Followable,
              LAMBDA it : FetchKind(Fetch(it[1], PlatformIdOf(it[2]))) = "ok")

\* C8: a turn of the enrichment loop goes on to the next reference or to the
\* end, raises nothing and keeps the profiles already merged.
C8_StepSkips ==
    (SingleRun /\ pc = "enrich") =>
        /\ pc' \in {"enrich", "returned"}
        /\ raised' = ""
        /\ k' = k + 1
        /\ Len(prospect'[1].platform_profiles) >= Len(prospect[1].platform_profiles)
        /\ SubSeq(prospect'[1].platform_profiles, 1, Len(prospect[1].platform_profiles))
              = prospect[1].platform_profiles

\* C8: at the end every reference with an adapter has been fetched, and the
\* profiles merged are those of the references whose fetch succeeded
C8_AllProcessed ==
    (Enriching /\ pc = "returned") =>
        /\ Len(EnrichFetches) = Len(Followable)
        /\ Len(prospect[1].platform_profiles) = Len(Fetchable)
        /\ \A n \in 1..Len(Fetchable) :
              SameRecord(prospect[1].platform_profiles[n],
                         Fetch(Fetchable[n][1], PlatformIdOf(Fetchable[n][2])).profile.value)

\* C8: a reference without adapter or with a failing fetch is skipped
C8_SkipsFailedReference == []C8_AllProcessed /\ [][C8_StepSkips]_vars

\* a reference without adapter (twitter) and one not supported (skool) came
\* before a reference that was merged (youtube), a failing one (patreon) after
C8_Witness ==
    /\ Enriching
    /\ pc = "returned"
    /\ Len(ReferencesBefore) = 4
    /\ ~HasAdapter(adapters, "twitter")
    /\ HasAdapter(adapters, "patreon")
    /\ FetchKind(Fetch("skool", Id_jane)) = "notimpl"
    /\ FetchKind(Fetch("patreon", Id_jane)) = "error"
    /\ Len(EnrichFetches) = 3
    /\ Len(prospect[1].platform_profiles) = 1
    /\ prospect[1].platform_profiles[1].platform = "youtube"

\* the adapters discover targets
Targets == TargetAdapters(adapters, call.platforms)

\* the profiles of the targeted adapters whose discover_coaches returned
RECURSIVE Discovered(_)
Discovered(targets) ==
    IF targets = <<>> THEN <<>>
    ELSE (IF world.feed[Head(targets)].kind = "ok"
          THEN world.feed[Head(targets)].value ELSE <<>>)
         \o Discovered(Tail(targets))

\* C9: discover raises nothing; past the adapter loop every targeted adapter
\* has been called once, in order, and the profiles are those of the adapters
\* that returned; the prospects returned hold those profiles.
C9_NeverAborts ==
    DiscoverRun =>
        /\ pc # "raised"
        /\ raised = ""
        /\ pc \in {"dedup", "sort", "returned"} =>
              /\ Len(calls) = Len(Targets)
              /\ \A n \in 1..Len(calls) :
                    /\ calls[n].op = "discover_coaches"
                    /\ calls[n].platform = Targets[n]
              /\ Len(all_profiles) = Len(Discovered(Targets))
              /\ \A n \in 1..Len(all_profiles) :
                    SameRecord(all_profiles[n], Discovered(Targets)[n])
        /\ pc = "returned" =>
              \A n \in 1..Len(all_profiles) :
                 \E m \in 1..Len(prospects) :
                    \E q \in 1..Len(AllProfiles(prospects[m])) :
                       AllProfiles(prospects[m])[q] = all_profiles[n]

\* the first adapter targeted failed, the second returned a profile, and the
\* run returned its prospect
C9_Witness ==
    /\ DiscoverRun
    /\ pc = "returned"
    /\ Len(Targets) = 2
    /\ world.feed[Targets[1]].kind = "error"
    /\ world.feed[Targets[2]].kind = "ok"
    /\ Len(calls) = 2
    /\ Len(prospects) = 1

\* C10 as stated: a discover run with no adapter registered, or with an
\* empty set of search terms, calls no adapter and goes nowhere but to an error.
C10_FailsOnInvalidInput ==
    (DiscoverRun /\ (adapters = <<>> \/ call.search_queries = <<>>)) =>
        /\ pc \in {"idle", "raised"}
        /\ calls = <<>>

\* C10: discover has no invalid-input error. With no adapter registered it
\* calls none and returns the empty list; with an empty set of search terms
\* it calls every targeted adapter with the empty set and never raises. The
\* task _discover_coaches starts discover with the YouTube adapter and never
\* with a missing or an empty set of search terms.
C10_NoInputValidation ==
    DiscoverRun =>
        /\ adapters = <<>> =>
              /\ pc \in {"idle", "sort", "returned"}
              /\ calls = <<>>
              /\ prospects = <<>>
        /\ call.search_queries = <<>> =>
              /\ pc # "raised"
              /\ \A n \in 1..Len(calls) : calls[n].arg = <<>>
              /\ pc \in {"dedup", "sort", "returned"} => Len(calls) = Len(Targets)
        /\ call.from_task =>
              /\ adapters = <<"youtube">>
              /\ call.search_queries # None
              /\ call.search_queries # <<>>

\* a run with an empty set of search terms has called an adapter with it and
\* returned a prospect
C10_Witness ==
    /\ DiscoverRun
    /\ ~call.from_task
    /\ call.search_queries = <<>>
    /\ pc = "returned"
    /\ calls # <<>>
    /\ calls[1].arg = <<>>
    /\ prospects # <<>>

\* C11: a step of a discover run keeps the primary, and so the name, of
\* every prospect; a step of the enrichment keeps the primary of its prospect.
C11_StepKeepsPrimary ==
    /\ (DiscoverRun /\ pc \in {"dedup", "sort"}) =>
          /\ \A n \in 1..Len(prospects) :
                \E m \in 1..Len(prospects') :
                   /\ prospects'[m].primary_profile = prospects[n].primary_profile
                   /\ Name(prospects'[m]) = Name(prospects[n])
                   /\ pc = "dedup" => m = n
          /\ Len(prospects') > Len(prospects) =>
                prospects'[Len(prospects')].primary_profile = Current
    /\ (SingleRun /\ pc = "enrich") =>
          /\ prospect'[1].primary_profile = prospect[1].primary_profile
          /\ Name(prospect'[1]) = Name(prospect[1])

\* C11: the primary of a prospect is the first discovered of its profiles
C11_FirstDiscovered ==
    /\ Resolving =>
          \A n \in 1..Len(prospects) :
             \A m \in 1..Len(prospects[n].platform_profiles) :
                prospects[n].primary_profile.ref < prospects[n].platform_profiles[m].ref
    /\ Enriching =>
          /\ prospect[1].primary_profile.ref = 1
          /\ \A m \in 1..Len(prospect[1].platform_profiles) :
                prospect[1].platform_profiles[m].ref > 1

\* C11: the primary of a prospect is set when the prospect is created and
\* stays the first profile discovered of it through merges, sort and enrichment
C11_PrimaryFixed == []C11_FirstDiscovered /\ [][C11_StepKeepsPrimary]_vars

\* a returned prospect named John Doe after its primary, with a profile
\* named otherwise merged by email and another merged after it
C11_Witness ==
    /\ Resolving
    /\ pc = "returned"
    /\ \E n \in 1..Len(prospects) :
          /\ Name(prospects[n]) = S_JohnDoe
          /\ Len(prospects[n].platform_profiles) >= 2
          /\ prospects[n].platform_profiles[1].name = S_JaneDoe2
          /\ SameEmail(prospects[n].platform_profiles[1].email, prospects[n].email)

\* C12: a step of a discover run, a merge by any rule or the sort, leaves
\* the email of a prospect that has one as it is, and so does a step of the
\* enrichment.
C12_StepKeepsEmail ==
    /\ (DiscoverRun /\ pc \in {"dedup", "sort"}) =>
          \A n \in 1..Len(prospects) :
             prospects[n].email # None =>
                \E m \in 1..Len(prospects') :
                   /\ prospects'[m].primary_profile = prospects[n].primary_profile
                   /\ prospects'[m].email = prospects[n].email
    /\ (SingleRun /\ pc = "enrich") =>
          (prospect[1].email # None => prospect'[1].email = prospect[1].email)

\* C12: the resolved email of a prospect, once set, is never changed
C12_EmailImmutable == [][C12_StepKeepsEmail]_vars

\* the prospect has the email found in the bio of its primary, and a profile
\* with another email has been merged by the enrichment
C12_Witness ==
    /\ Enriching
    /\ pc = "returned"
    /\ prospect[1].primary_profile.email = None
    /\ prospect[1].email = E_jf
    /\ Len(prospect[1].platform_profiles) = 1
    /\ prospect[1].platform_profiles[1].email = E_a

\* the prospects a run has at hand: those of _deduplicate_and_enrich, or the
\* one scrape_single has built
ProspectsAtHand ==
    IF Resolving THEN {prospects[n] : n \in 1..Len(prospects)}
    ELSE IF Enriching THEN {prospect[1]}
    ELSE {}

\* C13: the audience size of a prospect is the sum of the follower,
\* subscriber and member counts of its primary and of its other profiles.
C13_AudienceIsSum ==
    \A p \in ProspectsAtHand : TotalFollowers(p) = Audience(AllProfiles(p))

\* the keys of a social_links dict
Keys(d) == {d[n][1] : n \in 1..Len(d)}

\* the value a dict has for one of its keys
ValueOf(d, key) == d[CHOOSE n \in 1..Len(d) : d[n][1] = key][2]

\* the value the earliest of the profiles that have the key has for it
EarliestValue(profiles, key) ==
    LET holders == {n \in 1..Len(profiles) : key \in Keys(profiles[n].social_links)}
        first == CHOOSE n \in holders : \A m \in holders : n <= m
    IN  ValueOf(profiles[first].social_links, key)

\* C14: the social references of a prospect have the keys of all its
\* profiles, and for each key the value of the earliest profile that has it.
C14_EarliestReferenceWins ==
    \A p \in ProspectsAtHand :
        /\ Keys(SocialLinks(p))
              = UNION {Keys(AllProfiles(p)[n].social_links) : n \in 1..Len(AllProfiles(p))}
        /\ \A key \in Keys(SocialLinks(p)) :
              ValueOf(SocialLinks(p), key) = EarliestValue(AllProfiles(p), key)

\* C15: the bio of a prospect is the bio of one of its profiles, and none of
\* its profiles has a longer one.
C15_LongestBio ==
    \A p \in ProspectsAtHand :
        /\ \E n \in 1..Len(AllProfiles(p)) : Bio(p) = AllProfiles(p)[n].bio
        /\ \A n \in 1..Len(AllProfiles(p)) : Len(AllProfiles(p)[n].bio) <= Len(Bio(p))

\* the enrichment has merged a profile whose bio is longer than the primary's
C15_Witness ==
    /\ Enriching
    /\ pc = "returned"
    /\ Len(prospect[1].platform_profiles) = 1
    /\ Len(prospect[1].platform_profiles[1].bio) > Len(prospect[1].primary_profile.bio)
    /\ Bio(prospect[1]) = Bio_coach

\* the calls of discover on the instance that have returned: what
\* _deduplicate_and_enrich got and what came back
Invocations ==
    results \o (IF DiscoverRun /\ pc = "returned"
                THEN <<[profiles |-> all_profiles, prospects |-> prospects]>>
                ELSE <<>>)

\* C16: two calls on one instance that resolve the same list of profiles
\* return the same prospects: primaries, secondaries and emails.
C16_Deterministic ==
    \A a, b \in 1..Len(Invocations) :
        Invocations[a].profiles = Invocations[b].profiles
        => Invocations[a].prospects = Invocations[b].prospects

\* after a run on another list, a list of two profiles with one email has
\* been resolved twice, each time to one prospect
C16_Witness ==
    /\ DiscoverRun
    /\ pc = "returned"
    /\ Len(results) = 2
    /\ results[1].profiles # all_profiles
    /\ results[1].prospects # <<>>
    /\ results[2].profiles = all_profiles
    /\ results[2].prospects = prospects
    /\ Len(all_profiles) = 2
    /\ SameEmail(all_profiles[1].email, all_profiles[2].email)
    /\ Len(prospects) = 1
    /\ Len(prospects[1].platform_profiles) = 1

\* C17: when discover ranks, every social reference of a prospect that has
\* a registered adapter has been fetched, and a profile fetched is among the
\* prospect's secondaries.
C17_DiscoverEnriches ==
    (DiscoverRun /\ pc \in {"sort", "returned"}) =>
        \A n \in 1..Len(prospects) :
            LET refs == prospects[n].primary_profile.social_links
            IN  \A r \in 1..Len(refs) :
                   HasAdapter(adapters, refs[r][1]) =>
                      /\ \E c \in 1..Len(calls) : calls[c] = FetchOf(refs[r])
                      /\ FetchKind(Fetch(refs[r][1], PlatformIdOf(refs[r][2]))) = "ok" =>
                            \E m \in 1..Len(prospects[n].platform_profiles) :
                               prospects[n].platform_profiles[m].platform = refs[r][1]

\* C18: a profile whose email is, case ignored, the resolved email of a
\* prospect is merged into such a prospect, and no prospect is created.
C18_StepEmailRule ==
    (DiscoverRun /\ pc = "dedup"
     /\ \E x \in 1..Len(prospects) : SameEmail(Current.email, prospects[x].email))
    => /\ Len(prospects') = Len(prospects)
       /\ \E x \in 1..Len(prospects) :
             SameEmail(Current.email, prospects[x].email) /\ MergedInto(x)

\* C18: the email rule looks at the resolved email of every prospect
C18_ResolvedEmailRule == [][C18_StepEmailRule]_vars

\* C19: a profile without email whose bio holds an address is merged into a
\* prospect whose resolved email is that address.
C19_StepExtractedEmail ==
    (DiscoverRun /\ pc = "dedup" /\ ~Truthy(Current.email)
     /\ \E x \in 1..Len(prospects) : SameEmail(ExtractEmail(Current), prospects[x].email))
    => \E x \in 1..Len(prospects) :
          SameEmail(ExtractEmail(Current), prospects[x].email) /\ MergedInto(x)

\* C19: the email rule takes the address found in the bio for a missing email
C19_ExtractedEmailRule == [][C19_StepExtractedEmail]_vars

\* the prospects one of whose secondaries, and none of whose primaries, has
\* the website of the profile
WebsiteOfSecondaryOnly(profile) ==
    {x \in 1..Len(prospects) :
        /\ \E m \in 1..Len(prospects[x].platform_profiles) :
              SameWebsite(profile.website_url, prospects[x].platform_profiles[m].website_url)
        /\ \A y \in 1..Len(prospects) :
              ~SameWebsite(profile.website_url, prospects[y].primary_profile.website_url)}

\* C20: a profile that no prospect matches by email and whose website is
\* that of a secondary of a prospect, and of no primary, is merged into such
\* a prospect.
C20_StepWebsiteOfSecondary ==
    (DiscoverRun /\ pc = "dedup"
     /\ \A z \in 1..Len(prospects) : ~SameEmail(Current.email, prospects[z].email)
     /\ WebsiteOfSecondaryOnly(Current) # {})
    => \E x \in WebsiteOfSecondaryOnly(Current) : MergedInto(x)

\* C20: the website rule looks at the websites of the secondaries
C20_SecondaryWebsiteRule == [][C20_StepWebsiteOfSecondary]_vars

\* a website without its scheme and in lower case
RECURSIVE StartsWith(_, _)
StartsWith(s, prefix) ==
    \/ prefix = <<>>
    \/ /\ s # <<>>
       /\ Head(s) = Head(prefix)
       /\ StartsWith(Tail(s), Tail(prefix))

SchemeLess(url) ==
    LET u == Lower(url)
        https == <<"h","t","t","p","s",":","/","/">>
        http == <<"h","t","t","p",":","/","/">>
    IN  IF StartsWith(u, https) THEN SubSeq(u, Len(https) + 1, Len(u))
        ELSE IF StartsWith(u, http) THEN SubSeq(u, Len(http) + 1, Len(u))
        ELSE u

\* C21: two profiles without email, with names that are not similar and
\* websites that differ in scheme or letter case only, resolved from an empty
\* list, are one prospect.
C21_SchemeAndCase ==
    (/\ Resolving
     /\ pc = "returned"
     /\ Len(all_profiles) = 2
     /\ ~Truthy(all_profiles[1].email) /\ ~Truthy(all_profiles[2].email)
     /\ ~Similar(NameKey(all_profiles[2]), NameKey(all_profiles[1]))
     /\ Truthy(all_profiles[1].website_url) /\ Truthy(all_profiles[2].website_url)
     /\ SchemeLess(all_profiles[1].website_url) = SchemeLess(all_profiles[2].website_url))
    => Len(prospects) = 1

\* the ratio of name a with b is at least that of a with c
RatioAtLeast(a, b, c) == Ratio(a, b)[1] * Ratio(a, c)[2] >= Ratio(a, c)[1] * Ratio(a, b)[2]

\* C22: a profile without email or website match whose name is similar to
\* the names of several prospects is merged into one with the highest ratio.
C22_StepHighestRatio ==
    (DiscoverRun /\ pc = "dedup" /\ NoExactMatch(Current)) =>
        LET similar == {n \in 1..Len(prospects) :
                           Similar(NameKey(Current), NameOf(prospects[n]))}
            best == {n \in similar :
                        \A m \in similar :
                           RatioAtLeast(NameKey(Current), NameOf(prospects[n]),
                                        NameOf(prospects[m]))}
        IN  similar # {} => \E n \in best : MergedInto(n)

\* C22: the name rule takes the most similar prospect
C22_HighestRatio == [][C22_StepHighestRatio]_vars

\* C23: a profile with an empty normalized name and without email or website
\* match becomes a new prospect.
C23_StepEmptyName ==
    (DiscoverRun /\ pc = "dedup" /\ NameKey(Current) = <<>> /\ NoExactMatch(Current)) =>
        /\ Len(prospects') = Len(prospects) + 1
        /\ prospects'[Len(prospects')].primary_profile = Current

\* C23: an empty name matches no prospect
C23_EmptyNameNeverMatches == [][C23_StepEmptyName]_vars

\* the first email among the profiles, None when none has one
RECURSIVE FirstEmail(_)
FirstEmail(profiles) ==
    IF profiles = <<>> THEN None
    ELSE IF Head(profiles).email # None THEN Head(profiles).email
    ELSE FirstEmail(Tail(profiles))

\* C24: the resolved email of a prospect of a discover run is the first email
\* among its primary and then its secondaries in merge order.
C24_FirstEmailResolved ==
    Resolving =>
        \A n \in 1..Len(prospects) :
            prospects[n].email = FirstEmail(AllProfiles(prospects[n]))


(***************************************************************************)
(* Properties of the outreach and of the store pipeline (OutreachSpec)     *)
(***************************************************************************)
\* the email of a step went out to the prospect of the n-th email, before it
\* and at least so many days before it
SentBefore(n, step, days) ==
    \E m \in 1..(n - 1) :
        /\ outbox[m].prospect_id = outbox[n].prospect_id
        /\ outbox[m].step = step
        /\ outbox[m].sent_at + days <= outbox[n].sent_at

C26_NoReminderOnceClaimed ==
    \A n \in DOMAIN outbox :
        outbox[n].step \in {2, 3} => outbox[n].status # "claimed"

\* C27: once a hard bounce, a soft bounce or an unsubscribe event has been
\* processed for an email of a prospect, process_outreach sends it no further
\* reminder, whatever events are processed afterwards and whichever handler
\* processed them. Here for the runs that came to select the prospect only
\* after the event was processed.
C27_NoReminderOnceBounced ==
    \A n \in DOMAIN outbox :
        outbox[n].step \in {2, 3} => ~outbox[n].bounced

\* C28: a step is sent to a prospect at most once and has at most one
\* CampaignEvent row per prospect and campaign, however two runs of
\* process_outreach interleave.
C28_StepSentOnce ==
    /\ \A m, n \in DOMAIN outbox :
          /\ outbox[m].prospect_id = outbox[n].prospect_id
          /\ outbox[m].step = outbox[n].step
          => m = n
    /\ \A x, y \in DOMAIN campaign_events :
          /\ campaign_events[x].prospect_id = campaign_events[y].prospect_id
          /\ campaign_events[x].campaign_id = campaign_events[y].campaign_id
          /\ campaign_events[x].step = campaign_events[y].step
          => x = y

C29_StepClaimedStays ==
    \A p \in ProspectIds :
        prospect_rows[p].status = "claimed"
        => /\ prospect_rows'[p].status = "claimed"
           /\ prospect_rows'[p].claimed_at = prospect_rows[p].claimed_at

\* C29: CLAIMED is terminal: once the status of a prospect is CLAIMED, no
\* pipeline task, outreach run or webhook event changes its status or its
\* claimed_at.
C29_ClaimedIsTerminal == [][C29_StepClaimedStays]_vars

\* C30: at most one CMS application is ever created for a prospect, also when
\* create_store_task is retried after the CMS commit and when
\* full_pipeline_task is repeated.
C30_OneApplication ==
    \A p \in ProspectIds :
        Cardinality({n \in DOMAIN applications : applications[n].prospect_id = p}) <= 1

=============================================================================
